---- MODULE Spec2Model ----
(***************************************************************************)
(* Model of the `erased` crate: ErasedBox (src/src/erased_box.rs),         *)
(* ErasedMut (src/src/erased_mut_ref.rs) and Erased                        *)
(* (src/src/erased_ref.rs).                                                *)
(*                                                                         *)
(* Memory is a map from non-null addresses to typed cells.  A pointer, a   *)
(* reference and a Box are records carrying an address and the static type *)
(* the program gives them; NonNull::cast replaces the static type and      *)
(* keeps the address.  A reference carries the lifetime its signature      *)
(* gives it, and the borrow checker is modelled by the guards of the       *)
(* actions: an operation that takes `&mut self` or `self` is only enabled  *)
(* when no live view borrows that handle.  An operation whose behaviour is *)
(* undefined produces any of the results it could produce and sets ub; the *)
(* model says nothing about what the program does after it.  An ErasedMut  *)
(* is made from `&mut x` or from an exclusive view the caller holds, which *)
(* includes the views ErasedMut::get and ErasedBox::get_mut return; the    *)
(* view is moved into the handle or reborrowed by it.                      *)
(***************************************************************************)
EXTENDS Integers, Sequences, FiniteSets, Bags

\* ---------------------------------------------------------------- bounds
\* heap allocations the caller makes with Box::new
MaxAllocs == 2
\* variables of the caller that references are taken of
MaxVars == 2
\* values are 0..MaxVal
MaxVal == 1
\* handle variables (ErasedBox or ErasedMut) of the caller
MaxHandles == 2
\* typed views in use at the same time
MaxViews == 2
\* length of the caller's Vec<Erased>
MaxLen == 2

Null == 0
HeapAddr == 1..MaxAllocs
VarAddr == 1..MaxVars
\* The program that uses ErasedMut has one variable x, at this address: an
\* ErasedMut borrows one referent, and a second variable is a second,
\* independent copy of the same machine.
MutAddr == {1}
Val == 0..MaxVal
Slots == 1..MaxHandles

\* ----------------------------------------------------------------- types
Unit == "unit"
ScalarTypes == {"usize", "u64"}
RefType == "ref"
Types == ScalarTypes \cup {RefType}

\* ------------------------------------------------------------- lifetimes
\* 'static, the lifetime of a shared borrow (`&self`) of handle variable s, and
\* the lifetime 'a of a borrow of the caller's variable at address a.
StaticLt == [k |-> "static", s |-> 0]
SelfLt(s) == [k |-> "self", s |-> s]
\* The lifetime of an exclusive borrow (`&mut self`) of handle variable s, and
\* the lifetime of the reborrow `&mut *r` that the ErasedMut in handle variable
\* s was made from.
SelfMutLt(s) == [k |-> "selfmut", s |-> s]
LtR(s) == [k |-> "reborrow", s |-> s]
LtA(a) == [k |-> "a", s |-> a]

\* ---------------------------------------------------------------- memory
\* A cell is unallocated, a live heap allocation ("heap"), a freed one, or a
\* variable of the caller declared `let mut` ("mut") or `let` ("imm").
Unalloc == [st |-> "unalloc", ty |-> Unit, v |-> 0]
Freed == [st |-> "freed", ty |-> Unit, v |-> 0]
Cell(st, T, v) == [st |-> st, ty |-> T, v |-> v]
LiveSt == {"heap", "mut", "imm"}

\* A typed access through r is defined when r points to a live cell of r's
\* static type.
Defined(m, r) == r.addr \in DOMAIN m /\ m[r.addr].st \in LiveSt /\ m[r.addr].ty = r.ty
\* What the cell r points to compares as: a scalar by its value, a reference
\* by the value of its referent (PartialEq of &T compares the referents).
Pointee(m, r) ==
    IF r.ty = RefType THEN [addr |-> m[r.addr].v, ty |-> m[m[r.addr].v].ty]
    ELSE [addr |-> r.addr, ty |-> r.ty]
\* The values a read through r can produce: the stored value when the access
\* is defined, any value when it is undefined behaviour.
Loads(m, r) == IF Defined(m, r) THEN {m[Pointee(m, r).addr].v} ELSE Val

\* ------------------------------------------------- pointers & references
NoRes == [addr |-> Null, ty |-> Unit, kind |-> "none", lt |-> StaticLt]
MkRef(a, T, kind, lt) == [addr |-> a, ty |-> T, kind |-> kind, lt |-> lt]
MkBox(a, T) == MkRef(a, T, "box", StaticLt)

\* NonNull::from replaced by a pointer that can be null.
NonNull_from_null(r) == [addr |-> Null, ty |-> r.ty]
\* NonNull::from(&T / &mut T): the address of the referent, typed T.
NonNull_from(r) == [addr |-> r.addr, ty |-> r.ty]
\* NonNull::cast::<U>(): same address, static type U.
cast(p, U) == [addr |-> p.addr, ty |-> U]
\* NonNull::as_ref / as_mut: a reference whose lifetime the signature of the
\* calling function chooses.
as_ref(p, lt) == MkRef(p.addr, p.ty, "shared", lt)
as_mut(p, lt) == MkRef(p.addr, p.ty, "mut", lt)
\* Box::leak(b): the box is given up for a &'static mut T to its allocation.
Box_leak(b) == MkRef(b.addr, b.ty, "mut", StaticLt)
\* Box::from_raw(p): a Box owning the allocation p points to.
Box_from_raw(r) == MkBox(r.addr, r.ty)

\* The address of a local variable of the function that holds the pointer a:
\* a location outside the memory the caller's values live in.
LocalOf(a) == a + MaxAllocs + MaxVars

\* -------------------------------------------------------------- ErasedBox
\* `NonNull::from(&t)`: the address of the local `t`, not of the allocation.
ErasedBox_new_local(t) == [ptr |-> cast([addr |-> LocalOf(t.addr), ty |-> t.ty], Unit)]
ErasedBox_new(t) == [ptr |-> cast(NonNull_from(Box_leak(t)), Unit)]
ErasedBox_from(value) == ErasedBox_new(value)
ErasedBox_into_inner(self, T) == Box_from_raw(as_mut(cast(self.ptr, T), StaticLt))
\* selfLt is the lifetime of the borrow `&self` / `&mut self` of the call; the
\* elided lifetime of the returned reference is that lifetime.
ErasedBox_get_ref(self, T, selfLt) == as_ref(cast(self.ptr, T), selfLt)
\* `-> &'static mut T`: a view that is not bound to the borrow of self.
ErasedBox_get_mut_unbound(self, T, selfLt) == as_mut(cast(self.ptr, T), StaticLt)
ErasedBox_get_mut(self, T, selfLt) == as_mut(cast(self.ptr, T), selfLt)

\* -------------------------------------------------------------- ErasedMut
\* phantom: PhantomData<&'a ()> holds no data; it carries the lifetime 'a.
\* `NonNull::from(&t)`: the address of the local `t`, not of the referent.
ErasedMut_new_local(t) ==
    [ptr |-> cast([addr |-> LocalOf(t.addr), ty |-> t.ty], Unit), phantom |-> t.lt]
ErasedMut_new(t) == [ptr |-> cast(NonNull_from(t), Unit), phantom |-> t.lt]
ErasedMut_from(value) == ErasedMut_new(value)
\* Both return a reference of lifetime 'a, not of the borrow of self.
ErasedMut_get(self, T, selfLt) == as_mut(cast(self.ptr, T), self.phantom)
ErasedMut_get_ref(self, T, selfLt) == as_ref(cast(self.ptr, T), self.phantom)

\* ----------------------------------------------------------------- Erased
Erased_new(t) == [ptr |-> cast(NonNull_from(t), Unit), phantom |-> t.lt]
\* `Self::new(&value)`: erases the local `value`, a `&&T`.
Erased_from_local(value) ==
    [ptr |-> cast([addr |-> LocalOf(value.addr), ty |-> RefType], Unit),
     phantom |-> value.lt]
Erased_from(value) == Erased_new(value)
\* `NonNull::from(&self.ptr).cast::<T>()`: a view of the handle's own field.
Erased_get_field(self, T) ==
    as_ref(cast([addr |-> LocalOf(self.ptr.addr), ty |-> Unit], T), self.phantom)
Erased_get(self, T) == as_ref(cast(self.ptr, T), self.phantom)
\* #[derive(Copy, Clone)]: a field-by-field copy.
Erased_clone(self) == [ptr |-> self.ptr, phantom |-> self.phantom]

NoHandle == [ptr |-> [addr |-> Null, ty |-> Unit]]
NoEM == [ptr |-> [addr |-> Null, ty |-> Unit], phantom |-> StaticLt]

\* mem     : the heap and the caller's variables
\* boxes   : the Box<T> values the caller owns
\* eboxes  : the ErasedBox held in each of the caller's handle variables
\* emuts   : the ErasedMut held in each of the caller's handle variables
\* vec     : a Vec<Erased> of the caller
\* srcs    : for each element of vec, the reference it was erased from
\* track   : for each handle variable in use, the Box or reference it was
\*           created from
\* wlog    : for each address, the value the caller last stored there and
\*           whether it was stored through a view
\* views   : the typed views handed out and still in use (a bag)
\* last    : the last operation and what it returned
\* ub      : an operation with undefined behaviour has been executed
VARIABLES mem, boxes, eboxes, emuts, vec, srcs, track, wlog, views, last, ub

vars == <<mem, boxes, eboxes, emuts, vec, srcs, track, wlog, views, last, ub>>

\* d is the number of ErasedMut handles between the handle and the caller's
\* own Box or variable (0: made from the Box or from `&mut x` itself), valid
\* whether the aliasing rules still allow the use of the handle's pointer.
NoTrack == [st |-> "unused", addr |-> Null, ty |-> Unit, d |-> 0, valid |-> TRUE]
MkTrack(a, T) == [st |-> "live", addr |-> a, ty |-> T, d |-> 0, valid |-> TRUE]
\* last.h is the handle variable (or the index in vec) the operation was
\* called on, last.org the address of the value that handle was created
\* from, last.exp the record track held for the handle when the call began.
NoLast == [op |-> "none", h |-> 0, org |-> Null, T |-> Unit, res |-> NoRes, val |-> 0,
           exp |-> NoTrack]
MkLast(op, h, org, T, res, val, exp) ==
    [op |-> op, h |-> h, org |-> org, T |-> T, res |-> res, val |-> val, exp |-> exp]

Min(S) == CHOOSE x \in S : \A y \in S : x <= y
FreeAddrs == {a \in DOMAIN mem : mem[a].st = "unalloc"}
FreeSlots == {s \in Slots : track[s].st = "unused"}
LiveSlots == {s \in Slots : track[s].st = "live"}
\* The sequence q without its i-th element.
RemoveAt(q, i) == [j \in 1..(Len(q) - 1) |-> IF j < i THEN q[j] ELSE q[j + 1]]

\* A live view: the reference, the address org of the value its handle was
\* created from, the d of that handle, and whether the aliasing rules still
\* allow its use; lent is the handle variable of the ErasedMut that holds a
\* reborrow of it (0: none), during which the caller cannot use it.
LiveViews == BagToSet(views)
MkView(r, org, d) == [ref |-> r, org |-> org, d |-> d, valid |-> TRUE, lent |-> 0]
\* The record of an ErasedMut made from the exclusive view e.
MkDerived(e) ==
    [st |-> "live", addr |-> e.ref.addr, ty |-> e.ref.ty, d |-> e.d + 1, valid |-> e.valid]

\* The borrow checker: the live views whose lifetime is a borrow of handle
\* variable s, and those whose lifetime is the borrow 'a of variable a.
\* A view of either kind whose lifetime is the exclusive borrow of s keeps s
\* exclusively borrowed.
BorrowsOf(s) == {e \in LiveViews : e.ref.lt \in {SelfLt(s), SelfMutLt(s)}}
MutBorrowsOf(s) == {e \in LiveViews : e.ref.lt = SelfMutLt(s)}
\* The ErasedMut handles in use that hold an exclusive borrow of handle
\* variable s (they were made from a view returned by its get_mut).
HandlesBorrowing(s) == {h \in Slots : emuts[h] # NoEM /\ emuts[h].phantom = SelfMutLt(s)}
\* Lifetime L is in use among the views vs and the ErasedMut handles em.
AliveIn(L, vs, em) ==
    \/ \E e \in BagToSet(vs) : e.ref.lt = L
    \/ \E h \in Slots : em[h] # NoEM /\ em[h].phantom = L
\* The handle variables a new reborrowing ErasedMut can be bound to.
FreshSlots == {s \in FreeSlots : ~AliveIn(LtR(s), views, emuts)}
BorrowsOfVar(a) == {e \in LiveViews : e.ref.lt = LtA(a)}
\* The live views that came from a handle created from the value at a.
ViewsOf(a) == {e \in LiveViews : e.org = a}
NumViewsOf(a, kind) ==
    BagCardinality([e \in {x \in ViewsOf(a) : x.ref.kind = kind} |-> views[e]])

\* The number of elements of the bag vs that are in the set S.
Copies(vs, S) ==
    LET RECURSIVE sum(_)
        sum(X) == IF X = {} THEN 0
                  ELSE LET x == CHOOSE x \in X : TRUE
                       IN vs[x] + sum(X \ {x})
    IN sum(S)
\* The aliasing rules of references made from a raw pointer: making a `&mut`
\* ends the validity of every other view of the location, making a `&` ends
\* the validity of its `&mut` views.  A later use of such a view is undefined.
\* The views the new reference descends from are not touched: they are lent
\* and were returned by a handle of smaller d than the handle used (d).
Retagged(e, a, kind, d) ==
    IF /\ e.ref.addr = a /\ (kind = "mut" \/ e.ref.kind = "mut")
       /\ ~(e.lent # 0 /\ e.d < d)
      THEN [e EXCEPT !.valid = FALSE]
      ELSE e
Retag(vs, a, kind, d) ==
    LET old == BagToSet(vs) IN
      [n \in {Retagged(e, a, kind, d) : e \in old} |->
          Copies(vs, {e \in old : Retagged(e, a, kind, d) = n})]
AddView(r, org, d) == Retag(views, r.addr, r.kind, d) (+) SetToBag({MkView(r, org, d)})
\* The borrow checker: a reborrow ends with the last use of the ErasedMut made
\* from it and of every view of its lifetime; the view is then the caller's
\* again.
Settled(e, vs, em) ==
    IF e.lent # 0 /\ ~AliveIn(LtR(e.lent), vs, em) THEN [e EXCEPT !.lent = 0] ELSE e
Settle(vs, em) ==
    LET old == BagToSet(vs) IN
      [n \in {Settled(e, vs, em) : e \in old} |->
          Copies(vs, {e \in old : Settled(e, vs, em) = n})]
\* The same rules for the pointers of handles: a `&mut` made through handle s
\* ends the validity of every ErasedMut of the same location that was made
\* from an earlier view (s itself and the handles s descends from are not
\* touched: their d is smaller).
Invalidated(tr, s, r) ==
    [h \in Slots |->
        IF /\ h # s /\ tr[h].st = "live" /\ tr[h].addr = r.addr
           /\ tr[h].d >= tr[s].d /\ r.kind = "mut"
          THEN [tr[h] EXCEPT !.valid = FALSE]
          ELSE tr[h]]

\* ------------------------------------------------------ ErasedBox actions
\* let b = Box::new(v)
BoxNewAct ==
    \E T \in ScalarTypes, v \in Val :
        /\ ~ub
        /\ FreeAddrs # {}
        /\ LET a == Min(FreeAddrs) IN
             /\ mem' = [mem EXCEPT ![a] = Cell("heap", T, v)]
             /\ boxes' = boxes \cup {MkBox(a, T)}
             /\ wlog' = [wlog EXCEPT ![a] = [cur |-> v, written |-> FALSE]]
             /\ last' = MkLast("box_new", 0, Null, Unit, NoRes, 0, NoTrack)
        /\ UNCHANGED <<eboxes, emuts, vec, srcs, track, views, ub>>

\* `fn new<T>(t: &Box<T>)`: the caller keeps its Box.
ErasedBoxNewAct_borrowing ==
    \E b \in boxes :
        /\ ~ub
        /\ FreeSlots # {}
        /\ LET s == Min(FreeSlots) IN
             /\ eboxes' = [eboxes EXCEPT ![s] = ErasedBox_new(b)]
             /\ track' = [track EXCEPT ![s] = MkTrack(b.addr, b.ty)]
             /\ wlog' = [wlog EXCEPT ![b.addr].written = FALSE]
             /\ last' = MkLast("new", 0, Null, Unit, NoRes, 0, NoTrack)
        /\ UNCHANGED <<mem, boxes, emuts, vec, srcs, views, ub>>

\* let erased = ErasedBox::new(b)   /   let erased: ErasedBox = b.into()
ErasedBoxNewAct ==
    \E b \in boxes, via \in {"new", "from"} :
        /\ ~ub
        /\ FreeSlots # {}
        /\ LET s == Min(FreeSlots)
               e == IF via = "new" THEN ErasedBox_new(b) ELSE ErasedBox_from(b)
           IN
             /\ eboxes' = [eboxes EXCEPT ![s] = e]
             /\ boxes' = boxes \ {b}
             /\ track' = [track EXCEPT ![s] = MkTrack(b.addr, b.ty)]
             /\ wlog' = [wlog EXCEPT ![b.addr].written = FALSE]
             /\ last' = MkLast("new", 0, Null, Unit, NoRes, 0, NoTrack)
        /\ UNCHANGED <<mem, emuts, vec, srcs, views, ub>>

\* let r = unsafe { erased.into_inner::<T>() };  let x = *r
IntoInnerAct ==
    \E s \in Slots, T \in ScalarTypes :
        /\ ~ub
        /\ track[s].st = "live"
        /\ eboxes[s] # NoHandle
        /\ BorrowsOf(s) = {} /\ HandlesBorrowing(s) = {}
        /\ LET b == ErasedBox_into_inner(eboxes[s], T) IN
             /\ boxes' = boxes \cup {b}
             /\ ub' = ~Defined(mem, b)
             /\ \E x \in Loads(mem, b) :
                  last' = MkLast("into_inner", s, track[s].addr, T, b, x, track[s])
        /\ eboxes' = [eboxes EXCEPT ![s] = NoHandle]
        /\ track' = [track EXCEPT ![s] = NoTrack]
        /\ UNCHANGED <<mem, emuts, vec, srcs, wlog, views>>

\* let r = unsafe { erased.get_ref::<T>() };  let x = *r
BoxGetRefAct ==
    \E s \in Slots, T \in ScalarTypes :
        /\ ~ub
        /\ track[s].st = "live"
        /\ eboxes[s] # NoHandle
        /\ MutBorrowsOf(s) = {} /\ HandlesBorrowing(s) = {}
        /\ BagCardinality(views) < MaxViews
        /\ LET r == ErasedBox_get_ref(eboxes[s], T, SelfLt(s)) IN
             /\ views' = AddView(r, track[s].addr, track[s].d)
             /\ ub' = ~Defined(mem, r)
             /\ \E x \in Loads(mem, r) :
                  last' = MkLast("get_ref", s, track[s].addr, T, r, x, track[s])
        /\ UNCHANGED <<mem, boxes, eboxes, emuts, vec, srcs, track, wlog>>

\* let r = unsafe { erased.get_mut::<T>() };  let x = *r
BoxGetMutAct ==
    \E s \in Slots, T \in ScalarTypes :
        /\ ~ub
        /\ track[s].st = "live"
        /\ eboxes[s] # NoHandle
        /\ BorrowsOf(s) = {} /\ HandlesBorrowing(s) = {}
        /\ BagCardinality(views) < MaxViews
        /\ LET r == ErasedBox_get_mut(eboxes[s], T, SelfMutLt(s)) IN
             /\ views' = AddView(r, track[s].addr, track[s].d)
             /\ ub' = ~Defined(mem, r)
             /\ \E x \in Loads(mem, r) :
                  last' = MkLast("get_mut", s, track[s].addr, T, r, x, track[s])
        /\ UNCHANGED <<mem, boxes, eboxes, emuts, vec, srcs, track, wlog>>

\* An `impl Drop for ErasedBox` that frees the allocation.
DropErasedBoxAct_freeing ==
    \E s \in Slots :
        /\ ~ub
        /\ track[s].st = "live"
        /\ eboxes[s] # NoHandle
        /\ BorrowsOf(s) = {} /\ HandlesBorrowing(s) = {}
        /\ eboxes' = [eboxes EXCEPT ![s] = NoHandle]
        /\ track' = [track EXCEPT ![s] = NoTrack]
        /\ mem' = [mem EXCEPT ![track[s].addr] = Freed]
        /\ last' = MkLast("drop", s, track[s].addr, Unit, NoRes, 0, track[s])
        /\ UNCHANGED <<boxes, emuts, vec, srcs, wlog, views, ub>>

\* `erased` goes out of scope: ErasedBox has no Drop impl, only the handle is
\* gone.
DropErasedBoxAct ==
    \E s \in Slots :
        /\ ~ub
        /\ track[s].st = "live"
        /\ eboxes[s] # NoHandle
        /\ BorrowsOf(s) = {} /\ HandlesBorrowing(s) = {}
        /\ eboxes' = [eboxes EXCEPT ![s] = NoHandle]
        /\ track' = [track EXCEPT ![s] = NoTrack]
        /\ last' = MkLast("drop", s, track[s].addr, Unit, NoRes, 0, track[s])
        /\ UNCHANGED <<mem, boxes, emuts, vec, srcs, wlog, views, ub>>

\* A Box<T> of the caller goes out of scope: Box's Drop frees the allocation.
DropBoxAct ==
    \E b \in boxes :
        /\ ~ub
        /\ boxes' = boxes \ {b}
        /\ mem' = [mem EXCEPT ![b.addr] = Freed]
        /\ ub' = ~Defined(mem, b)
        /\ last' = MkLast("drop_box", 0, Null, Unit, NoRes, 0, NoTrack)
        /\ UNCHANGED <<eboxes, emuts, vec, srcs, track, wlog, views>>

\* ------------------------------------------------------- uses of a view
\* let x = *r
ReadViewAct ==
    \E e \in LiveViews :
        /\ ~ub
        /\ e.lent = 0
        /\ \E x \in (IF e.valid THEN Loads(mem, e.ref) ELSE Val) :
              last' = MkLast("read", 0, e.org, Unit, e.ref, x, NoTrack)
        /\ ub' = (~e.valid \/ ~Defined(mem, e.ref))
        /\ UNCHANGED <<mem, boxes, eboxes, emuts, vec, srcs, track, wlog, views>>

\* *r = w
WriteViewAct ==
    \E e \in LiveViews, w \in Val :
        LET ok == e.valid /\ Defined(mem, e.ref) IN
          /\ ~ub
          /\ e.lent = 0
          /\ e.ref.kind = "mut"
          /\ e.ref.addr \in DOMAIN mem
          /\ \E x \in (IF ok THEN {w} ELSE Val) :
                mem' = [mem EXCEPT ![e.ref.addr].v = x]
          /\ ub' = ~ok
          /\ wlog' = [wlog EXCEPT ![e.org] = [cur |-> w, written |-> TRUE]]
          /\ last' = MkLast("write", 0, Null, Unit, NoRes, 0, NoTrack)
          /\ UNCHANGED <<boxes, eboxes, emuts, vec, srcs, track, views>>

\* the last use of r has passed (a reborrow of r is a use of r)
EndViewAct ==
    \E e \in LiveViews :
        /\ ~ub
        /\ e.lent = 0
        /\ views' = Settle(views (-) SetToBag({e}), emuts)
        /\ last' = MkLast("end_view", 0, Null, Unit, NoRes, 0, NoTrack)
        /\ UNCHANGED <<mem, boxes, eboxes, emuts, vec, srcs, track, wlog, ub>>

\* ------------------------------------------------------ ErasedMut actions
\* let mut erased = ErasedMut::new(&mut x)  /  (&mut x).into()
\* The exclusive borrow of x needs every earlier borrow of x to have ended.
\* (ErasedMut::new of a reference the caller already holds is
\* ErasedMutNewFromViewAct.)
ErasedMutNewAct ==
    \E a \in DOMAIN mem, via \in {"new", "from"} :
        /\ ~ub
        /\ mem[a].st = "mut"
        /\ FreeSlots # {}
        /\ \A s \in LiveSlots : track[s].addr # a
        /\ BorrowsOfVar(a) = {}
        /\ LET s == Min(FreeSlots)
               t == MkRef(a, mem[a].ty, "mut", LtA(a))
               e == IF via = "new" THEN ErasedMut_new(t) ELSE ErasedMut_from(t)
           IN
             /\ emuts' = [emuts EXCEPT ![s] = e]
             /\ track' = [track EXCEPT ![s] = MkTrack(a, mem[a].ty)]
             /\ last' = MkLast("new_mut", 0, Null, Unit, NoRes, 0, NoTrack)
        /\ UNCHANGED <<mem, boxes, eboxes, vec, srcs, wlog, views, ub>>

\* let mut erased2 = ErasedMut::from(r)  /  ErasedMut::new(erased.get::<T>())
\* r is an exclusive view the caller holds (one returned by ErasedMut::get,
\* of lifetime 'a, or by ErasedBox::get_mut), passed by value: it is moved
\* into the handle, which has the lifetime of r.
ErasedMutNewFromViewAct ==
    \E e \in LiveViews, via \in {"new", "from"} :
        /\ ~ub
        /\ e.ref.kind = "mut"
        /\ e.lent = 0
        /\ e.d + 1 < MaxHandles
        /\ FreeSlots # {}
        /\ LET s == Min(FreeSlots)
               h == IF via = "new" THEN ErasedMut_new(e.ref) ELSE ErasedMut_from(e.ref)
           IN
             /\ emuts' = [emuts EXCEPT ![s] = h]
             /\ track' = [track EXCEPT ![s] = MkDerived(e)]
             /\ last' = MkLast("new_mut_view", s, e.org, e.ref.ty, NoRes, 0, MkDerived(e))
        /\ views' = views (-) SetToBag({e})
        /\ ub' = (~e.valid \/ ~Defined(mem, e.ref))
        /\ UNCHANGED <<mem, boxes, eboxes, vec, srcs, wlog>>

\* let mut erased2 = ErasedMut::new(r)  /  r.into()
\* r is a variable holding an exclusive view: the argument is the reborrow
\* `&mut *r`.  r stays with the caller, who cannot use it before the last use
\* of erased2 and of every view erased2 returns.
ErasedMutReborrowAct ==
    \E e \in LiveViews, via \in {"new", "into"} :
        /\ ~ub
        /\ e.ref.kind = "mut"
        /\ e.lent = 0
        /\ e.d + 1 < MaxHandles
        /\ FreshSlots # {}
        /\ LET s == Min(FreshSlots)
               t == MkRef(e.ref.addr, e.ref.ty, "mut", LtR(s))
               h == IF via = "new" THEN ErasedMut_new(t) ELSE ErasedMut_from(t)
           IN
             /\ emuts' = [emuts EXCEPT ![s] = h]
             /\ track' = [track EXCEPT ![s] = MkDerived(e)]
             /\ views' = (views (-) SetToBag({e})) (+) SetToBag({[e EXCEPT !.lent = s]})
             /\ last' = MkLast("new_mut_reborrow", s, e.org, e.ref.ty, NoRes, 0, MkDerived(e))
        /\ ub' = (~e.valid \/ ~Defined(mem, e.ref))
        /\ UNCHANGED <<mem, boxes, eboxes, vec, srcs, wlog>>

\* let r = unsafe { erased.get::<T>() };  let x = *r
MutGetAct ==
    \E s \in Slots, T \in ScalarTypes :
        /\ ~ub
        /\ track[s].st = "live"
        /\ emuts[s] # NoEM
        /\ BorrowsOf(s) = {}
        /\ BagCardinality(views) < MaxViews
        /\ LET r == ErasedMut_get(emuts[s], T, SelfMutLt(s)) IN
             /\ views' = AddView(r, track[s].addr, track[s].d)
             /\ track' = Invalidated(track, s, r)
             /\ ub' = (~track[s].valid \/ ~Defined(mem, r))
             /\ \E x \in (IF track[s].valid THEN Loads(mem, r) ELSE Val) :
                  last' = MkLast("get", s, track[s].addr, T, r, x, track[s])
        /\ UNCHANGED <<mem, boxes, eboxes, emuts, vec, srcs, wlog>>

\* let r = unsafe { erased.get_ref::<T>() };  let x = *r
MutGetRefAct ==
    \E s \in Slots, T \in ScalarTypes :
        /\ ~ub
        /\ track[s].st = "live"
        /\ emuts[s] # NoEM
        /\ MutBorrowsOf(s) = {}
        /\ BagCardinality(views) < MaxViews
        /\ LET r == ErasedMut_get_ref(emuts[s], T, SelfLt(s)) IN
             /\ views' = AddView(r, track[s].addr, track[s].d)
             /\ ub' = (~track[s].valid \/ ~Defined(mem, r))
             /\ \E x \in (IF track[s].valid THEN Loads(mem, r) ELSE Val) :
                  last' = MkLast("get_shared", s, track[s].addr, T, r, x, track[s])
        /\ UNCHANGED <<mem, boxes, eboxes, emuts, vec, srcs, track, wlog>>

\* `erased` is used no more.  ErasedMut owns nothing: only the handle is gone.
DropErasedMutAct ==
    \E s \in Slots :
        /\ ~ub
        /\ track[s].st = "live"
        /\ emuts[s] # NoEM
        /\ BorrowsOf(s) = {}
        /\ emuts' = [emuts EXCEPT ![s] = NoEM]
        /\ track' = [track EXCEPT ![s] = NoTrack]
        /\ views' = Settle(views, [emuts EXCEPT ![s] = NoEM])
        /\ last' = MkLast("drop_mut", 0, Null, Unit, NoRes, 0, NoTrack)
        /\ UNCHANGED <<mem, boxes, eboxes, vec, srcs, wlog, ub>>

\* let y = *r1, once the borrow 'a of x has ended: the ErasedMut and every
\* view of lifetime 'a are used no more.
ReadOriginalAct ==
    \E a \in DOMAIN mem :
        /\ ~ub
        /\ mem[a].st = "mut"
        /\ \A s \in LiveSlots : track[s].addr # a
        /\ BorrowsOfVar(a) = {}
        /\ last' = MkLast("read_orig", 0, a, mem[a].ty, NoRes, mem[a].v, NoTrack)
        /\ UNCHANGED <<mem, boxes, eboxes, emuts, vec, srcs, track, wlog, views, ub>>

\* --------------------------------------------------------- Erased actions
\* vec.push(Erased::new(&x))  /  vec.push((&x).into())
PushNewAct ==
    \E a \in DOMAIN mem, via \in {"new", "from"} :
        /\ ~ub
        /\ mem[a].st = "imm"
        /\ Len(vec) < MaxLen
        /\ LET t == MkRef(a, mem[a].ty, "shared", LtA(a))
               e == IF via = "new" THEN Erased_new(t) ELSE Erased_from(t)
           IN
             /\ vec' = Append(vec, e)
             /\ srcs' = Append(srcs, t)
             /\ last' = MkLast("push", 0, Null, Unit, NoRes, 0, NoTrack)
        /\ UNCHANGED <<mem, boxes, eboxes, emuts, track, wlog, views, ub>>

\* let c = vec[i];  vec.push(c)      (Erased is Copy)
PushCopyAct ==
    \E i \in DOMAIN vec :
        /\ ~ub
        /\ Len(vec) < MaxLen
        /\ vec' = Append(vec, Erased_clone(vec[i]))
        /\ srcs' = Append(srcs, srcs[i])
        /\ last' = MkLast("copy", i, Null, Unit, NoRes, 0, NoTrack)
        /\ UNCHANGED <<mem, boxes, eboxes, emuts, track, wlog, views, ub>>

\* let r = unsafe { vec[i].get::<T>() };  let x = *r
RefGetAct ==
    \E i \in DOMAIN vec, T \in Types :
        /\ ~ub
        /\ LET r == Erased_get(vec[i], T) IN
             /\ ub' = ~Defined(mem, r)
             /\ \E x \in Loads(mem, r) :
                  last' = MkLast("get_erased", i, srcs[i].addr, T, r, x,
                                 MkTrack(srcs[i].addr, srcs[i].ty))
        /\ UNCHANGED <<mem, boxes, eboxes, emuts, vec, srcs, track, wlog, views>>

\* vec.remove(i): one handle is discarded
RemoveAct ==
    \E i \in DOMAIN vec :
        /\ ~ub
        /\ vec' = RemoveAt(vec, i)
        /\ srcs' = RemoveAt(srcs, i)
        /\ last' = MkLast("remove", i, srcs[i].addr, Unit, NoRes, 0, NoTrack)
        /\ UNCHANGED <<mem, boxes, eboxes, emuts, track, wlog, views, ub>>

\* ------------------------------------------------------- specification
InitCommon ==
    /\ boxes = {}
    /\ eboxes = [s \in Slots |-> NoHandle]
    /\ emuts = [s \in Slots |-> NoEM]
    /\ vec = <<>>
    /\ srcs = <<>>
    /\ track = [s \in Slots |-> NoTrack]
    /\ views = EmptyBag
    /\ last = NoLast
    /\ ub = FALSE
    /\ wlog = [a \in DOMAIN mem |-> [cur |-> mem[a].v, written |-> FALSE]]

\* A program that uses ErasedBox: an empty heap.
InitBox == mem = [a \in HeapAddr |-> Unalloc]
\* A program that uses ErasedMut: a `let mut` variable of a scalar type.
InitMut == mem \in [MutAddr -> {Cell("mut", T, v) : T \in ScalarTypes, v \in Val}]
\* A program that uses Erased: `let` variables, scalars and references to
\* scalars.
InitRef ==
    /\ mem \in [VarAddr -> {Cell("imm", T, v) : T \in ScalarTypes, v \in Val}
                              \cup {Cell("imm", RefType, a) : a \in VarAddr}]
    /\ \A a \in VarAddr : mem[a].ty = RefType => mem[mem[a].v].ty \in ScalarTypes

Init == (InitBox \/ InitMut \/ InitRef) /\ InitCommon

Next ==
    \/ BoxNewAct
    \/ ErasedBoxNewAct
    \/ IntoInnerAct
    \/ BoxGetRefAct
    \/ BoxGetMutAct
    \/ DropErasedBoxAct
    \/ DropBoxAct
    \/ ReadViewAct
    \/ WriteViewAct
    \/ EndViewAct
    \/ ErasedMutNewAct
    \/ ErasedMutNewFromViewAct
    \/ ErasedMutReborrowAct
    \/ MutGetAct
    \/ MutGetRefAct
    \/ DropErasedMutAct
    \/ ReadOriginalAct
    \/ PushNewAct
    \/ PushCopyAct
    \/ RefGetAct
    \/ RemoveAct

Spec == Init /\ [][Next]_vars

\* ================================================================ claims
\* The value a caller reads at address a: a scalar's value, a reference's
\* referent.
ValueOf(a) == IF mem[a].ty = RefType THEN mem[mem[a].v].v ELSE mem[a].v
\* The owners of the allocation at a: the caller's boxes and the ErasedBox
\* handles that point to it.
BoxOwners(a) == {b \in boxes : b.addr = a}
HandleOwners(a) == {s \in Slots : eboxes[s] # NoHandle /\ eboxes[s].ptr.addr = a}
NumOwners(a) == Cardinality(BoxOwners(a)) + Cardinality(HandleOwners(a))
Leaked(a) == mem[a].st = "heap" /\ NumOwners(a) = 0
HeapCells == {a \in DOMAIN mem : mem[a].st = "heap"}
MutCells == {a \in DOMAIN mem : mem[a].st = "mut"}
IsRecovery == last.op \in {"into_inner", "get_ref", "get_mut", "get", "get_shared",
                           "get_erased"}
RightType == last.T = last.exp.ty

\* C1: ErasedBox::new(b) followed by into_inner::<T>() with the T of b, and
\* no write in between, returns a Box<T> of the allocation b owned (the same
\* address, still allocated, nothing copied) whose content is the content b
\* had; the recovery is defined behaviour.
C1_OwnedRoundTrip ==
    (last.op = "into_inner" /\ RightType /\ ~wlog[last.org].written) =>
        /\ ~ub
        /\ last.res = MkBox(last.exp.addr, last.exp.ty)
        /\ last.res \in boxes
        /\ mem[last.res.addr] = Cell("heap", last.exp.ty, wlog[last.org].cur)
        /\ last.val = wlog[last.org].cur
C1_Witness ==
    /\ last.op = "into_inner" /\ RightType /\ ~wlog[last.org].written
    /\ last.val = MaxVal /\ ~ub

\* C2: after ErasedMut::new(&mut x) and a write of w through a view returned
\* by get::<T>(), get_ref::<T>() returns a view of x that reads w, a later
\* read through a shared view that is still valid reads w, and so does a read
\* of x once the borrow has ended; get and get_ref with the T of x are defined
\* behaviour (on an ErasedMut made from `&mut x` always, on one made from a
\* view as long as its pointer is valid).
C2_MutRoundTrip ==
    /\ (last.op \in {"get", "get_shared"} /\ last.exp.d = 0) => last.exp.valid
    /\ (last.op \in {"get", "get_shared"} /\ RightType /\ last.exp.valid) =>
          /\ ~ub
          /\ last.res.addr = last.org
          /\ last.val = wlog[last.org].cur
    /\ (last.op = "read" /\ last.org \in MutCells /\ last.res.kind = "shared" /\ ~ub) =>
          last.val = wlog[last.org].cur
    /\ (last.op = "read_orig") =>
          (~ub /\ last.val = wlog[last.org].cur)
C2_Witness ==
    /\ last.op = "get_shared" /\ RightType /\ wlog[last.org].written
    /\ last.exp.d = 0 /\ last.org \in MutCells
    /\ last.val = MaxVal /\ mem[last.org].v = MaxVal /\ ~ub
C2_WitnessOriginal ==
    /\ last.op = "read_orig" /\ wlog[last.org].written
    /\ last.val = MaxVal /\ ~ub

\* C3: an exclusive view returned by ErasedMut::get is never live at the same
\* time as another view of the same referent obtained from that ErasedMut: at
\* any moment there is at most one live exclusive view, or only shared views.
C3_Exclusive ==
    \A a \in MutCells :
        \/ NumViewsOf(a, "mut") = 0
        \/ (NumViewsOf(a, "mut") = 1 /\ NumViewsOf(a, "shared") = 0)

\* C4: Erased::new(&v).get::<T>() with the T of v, T a scalar or a reference
\* type, is defined and returns a shared reference to the location of v, whose
\* value compares equal to v.
C4_SharedRoundTrip ==
    (last.op = "get_erased" /\ RightType) =>
        /\ ~ub
        /\ last.res.kind = "shared"
        /\ last.res.addr = last.exp.addr
        /\ last.res.ty = last.exp.ty
        /\ last.val = ValueOf(last.exp.addr)
C4_Witness ==
    /\ last.op = "get_erased" /\ RightType /\ last.T = RefType
    /\ last.val = MaxVal /\ ~ub

\* One step keeps the ownership rules of the heap, for every allocation a.
C5_Step ==
    \A a \in DOMAIN mem :
        /\ (mem[a].st = "heap" /\ mem'[a].st # "heap") =>
              (\E b \in BoxOwners(a) : b \notin boxes')
        /\ (mem[a].st = "heap" /\ (\E b \in boxes' \ boxes : b.addr = a)) =>
              (/\ last'.op = "into_inner"
               /\ last'.h \in HandleOwners(a)
               /\ eboxes'[last'.h] = NoHandle)
        /\ (HandleOwners(a) # {} /\ last'.op = "drop" /\ last'.h \in HandleOwners(a)) =>
              (~ub' /\ mem' = mem /\ boxes' = boxes /\ Leaked(a)')
        /\ Leaked(a) => Leaked(a)'
\* C5: no ErasedBox operation frees the allocation (it is freed only when a
\* Box that owns it is dropped); only into_inner hands ownership of an erased
\* allocation back; dropping an ErasedBox is no error, changes no memory and
\* leaves the allocation allocated with no owner, for ever.
C5_LeakOnDiscard == [][C5_Step]_vars
C5_Witness ==
    \E a, b \in DOMAIN mem :
        /\ a # b /\ Leaked(a)
        /\ Leaked(b) /\ last.op = "drop" /\ last.org = b /\ ~ub
C5_WitnessLater ==
    \E a \in DOMAIN mem :
        Leaked(a) /\ last.op = "into_inner" /\ last.org # a /\ RightType /\ ~ub

\* C6: every element of a Vec<Erased> built from values of different types,
\* read with the type it was erased with, yields the value erased at that
\* position, whatever the other elements are and whichever reads came before.
C6_Heterogeneous ==
    /\ Len(vec) = Len(srcs)
    /\ \A i \in DOMAIN vec :
          LET r == Erased_get(vec[i], srcs[i].ty) IN
            /\ Defined(mem, r)
            /\ Loads(mem, r) = {ValueOf(srcs[i].addr)}
    /\ (last.op = "get_erased" /\ RightType /\ last.h \in DOMAIN vec) =>
          last.val = ValueOf(srcs[last.h].addr)
C6_Witness ==
    /\ Len(vec) = MaxLen
    /\ \E i, j \in DOMAIN vec : srcs[i].ty = RefType /\ srcs[j].ty \in ScalarTypes
    /\ last.op = "get_erased" /\ RightType /\ last.h = MaxLen /\ ~ub

\* The value the caller gave the variable the reference t was taken of (the
\* value of its referent when the variable is a reference).
SourceValue(t) ==
    IF t.ty = RefType THEN wlog[wlog[t.addr].cur].cur ELSE wlog[t.addr].cur
\* The handles of a kind that point to the value at a.
ErasedMutsOf(a) == {s \in Slots : emuts[s] # NoEM /\ emuts[s].ptr.addr = a}
\* The part of C7 about Erased and ErasedBox: a copy of an Erased is equal to
\* its original; every handle in the Vec, original or copy, points to its
\* source and get::<T>() through it yields the source's value in every state,
\* whichever handles were read or removed before; an ErasedBox is never
\* duplicated.
C7_CopiesAgree ==
    /\ (last.op = "copy") =>
          (vec[Len(vec)] = vec[last.h] /\ srcs[Len(vec)] = srcs[last.h])
    /\ \A i \in DOMAIN vec :
          /\ Erased_get(vec[i], srcs[i].ty).addr = srcs[i].addr
          /\ Loads(mem, Erased_get(vec[i], srcs[i].ty)) = {SourceValue(srcs[i])}
    /\ \A i, j \in DOMAIN vec : srcs[i] = srcs[j] => vec[i] = vec[j]
    /\ (last.op = "get_erased" /\ RightType) =>
          (~ub /\ last.val = SourceValue(srcs[last.h]))
    /\ \A a \in DOMAIN mem : Cardinality(HandleOwners(a)) <= 1
C7_WitnessCopies ==
    /\ last.op = "copy" /\ Len(vec) = MaxLen /\ vec[Len(vec)] = vec[last.h]
C7_WitnessRemoved ==
    /\ last.op = "remove"
    /\ \E j \in DOMAIN vec :
          /\ srcs[j].addr = last.org
          /\ Loads(mem, Erased_get(vec[j], srcs[j].ty)) = {MaxVal}
\* C7: a copy of an Erased points to the location the original points to, so
\* get::<T>() through either yields the same, whatever happens to the other;
\* an ErasedBox or an ErasedMut is never duplicated: at most one handle to a
\* referent exists.
C7_Duplication ==
    /\ C7_CopiesAgree
    /\ \A a \in DOMAIN mem : Cardinality(ErasedMutsOf(a)) <= 1

\* C8: while an ErasedBox exists its allocation is allocated and the
\* ErasedBox is its only owner; after into_inner the returned Box is the only
\* owner and the handle is gone; every operation was called on an ErasedBox
\* that existed.
C8_Ownership ==
    /\ \A s \in Slots :
          eboxes[s] # NoHandle =>
              /\ track[s].st = "live"
              /\ mem[track[s].addr].st = "heap"
              /\ HandleOwners(track[s].addr) = {s}
              /\ NumOwners(track[s].addr) = 1
    /\ \A a \in DOMAIN mem : NumOwners(a) <= 1
    /\ (last.op = "into_inner") =>
          /\ eboxes[last.h] = NoHandle
          /\ BoxOwners(last.org) = {last.res}
          /\ NumOwners(last.org) = 1
          /\ mem[last.org].st = "heap"
    /\ (last.op \in {"into_inner", "get_ref", "get_mut", "drop"}) => last.exp.st = "live"
C8_Witness ==
    /\ last.op = "into_inner" /\ ~ub
    /\ BoxOwners(last.org) = {last.res}

\* The number of borrows of ErasedBox s in use: the views it returned, and
\* the ErasedMut handles made from them (each holds the exclusive view it was
\* made from).
NumBorrows(s, kind) ==
    BagCardinality([e \in {x \in BorrowsOf(s) : x.d = 0 /\ x.ref.kind = kind} |-> views[e]])
      + (IF kind = "mut"
           THEN Cardinality({h \in HandlesBorrowing(s) : track[h].d = 1})
           ELSE 0)
\* C9: get_ref and get_mut leave the ErasedBox the owner of the same
\* allocation; get_ref leaves the value unchanged; a value written through a
\* get_mut view is what later reads and a later into_inner return; and no
\* view is live across a get_mut or into_inner call on the same ErasedBox.
C9_BorrowedViews ==
    /\ (last.op \in {"get_ref", "get_mut"} /\ last.org \in HeapCells) =>
          /\ eboxes[last.h] # NoHandle
          /\ eboxes[last.h].ptr.addr = last.org
          /\ NumOwners(last.org) = 1
          /\ mem[last.org].v = wlog[last.org].cur
          /\ (RightType => (~ub /\ last.val = wlog[last.org].cur))
          /\ last.res.lt = (IF last.op = "get_ref" THEN SelfLt(last.h) ELSE SelfMutLt(last.h))
    /\ (last.op = "read" /\ last.org \in HeapCells /\ ~ub) =>
          last.val = wlog[last.org].cur
    /\ (last.op = "into_inner" /\ RightType /\ wlog[last.org].written) =>
          (~ub /\ last.val = wlog[last.org].cur)
    /\ (last.op = "get_mut" /\ last.org \in HeapCells) =>
          (NumViewsOf(last.org, "mut") = 1 /\ NumViewsOf(last.org, "shared") = 0)
    /\ (last.op = "into_inner") => ViewsOf(last.org) = {}
    /\ (last.op = "get_ref" /\ last.org \in HeapCells) =>
          (MutBorrowsOf(last.h) = {} /\ HandlesBorrowing(last.h) = {})
    /\ \A s \in Slots :
          eboxes[s] # NoHandle =>
              \/ NumBorrows(s, "mut") = 0
              \/ (NumBorrows(s, "mut") = 1 /\ NumBorrows(s, "shared") = 0)
C9_Witness ==
    /\ last.op = "into_inner" /\ RightType /\ wlog[last.org].written
    /\ last.val = MaxVal /\ ~ub
C9_WitnessRead ==
    /\ last.op = "read" /\ last.org \in HeapCells /\ wlog[last.org].written
    /\ last.res.kind = "shared" /\ last.val = MaxVal /\ ~ub

\* C10: every handle holds a non-null pointer equal to the address of the
\* value it was made from; every recovery or view operation returns a box or
\* a view of the type it was asked for at that address, whatever the erased
\* type was (no run-time check, no error value); with the type used at
\* erasure it is defined behaviour.
C10_NoErrors ==
    /\ \A s \in Slots :
          /\ eboxes[s] # NoHandle =>
                (eboxes[s].ptr.addr # Null /\ eboxes[s].ptr.addr = track[s].addr)
          /\ emuts[s] # NoEM =>
                (emuts[s].ptr.addr # Null /\ emuts[s].ptr.addr = track[s].addr)
          /\ track[s].st = "live" => (eboxes[s] # NoHandle \/ emuts[s] # NoEM)
    /\ \A i \in DOMAIN vec :
          vec[i].ptr.addr # Null /\ vec[i].ptr.addr = srcs[i].addr
    /\ (last.op \in {"new", "new_mut", "push", "copy"}) => ~ub
    /\ (last.op \in {"new_mut_view", "new_mut_reborrow"} /\ last.exp.valid) =>
          (~ub /\ emuts[last.h].ptr.addr = last.org /\ last.org # Null)
    /\ IsRecovery =>
          /\ last.res.kind \in {"box", "shared", "mut"}
          /\ last.res.ty = last.T
          /\ last.res.addr = last.exp.addr
          /\ last.res.addr # Null
          /\ last.op \notin {"get", "get_shared"} => last.exp.valid
          /\ (RightType /\ last.exp.valid) => ~ub
C10_Witness ==
    /\ IsRecovery /\ RightType /\ ~ub
    /\ last.res.addr = last.exp.addr /\ last.res.addr # Null
C10_WitnessWrongType ==
    /\ IsRecovery /\ ~RightType /\ ub
    /\ last.res.ty = last.T /\ last.res.addr = last.exp.addr
====
